---- MODULE Spec2Model ----
(***************************************************************************)
(* Model of server.py: the process-wide session registry                   *)
(* state = {"drivers": {}, "current_session": None}, the fourteen tool     *)
(* handlers that read and mutate it, and cleanup().  The browser           *)
(* automation engine (selenium) is the environment: every engine call      *)
(* either succeeds or raises, chosen nondeterministically.                 *)
(***************************************************************************)
EXTENDS Integers, Sequences, FiniteSets, TLC

\* ---- bounds -------------------------------------------------------------
MaxClock == 1       \* the millisecond clock takes the values 0..MaxClock
MaxHandles == 2     \* at most this many engine launches succeed

VARIABLES
    drivers,          \* state["drivers"]: insertion-ordered dict, a sequence of [sid, driver]
    current_session,  \* state["current_session"]: None or a session id
    now,              \* int(time.time() * 1000) as the next read would return it
    nextHandle,       \* number of the next engine handle webdriver.Chrome()/Firefox() creates
    quit_attempted,   \* engine handles on which quit() has been called
    last,             \* the most recent call: operation, arguments, result, engine calls, state before
    threads           \* concurrent invocations: per thread, the line it is at and its locals

vars == <<drivers, current_session, now, nextHandle, quit_attempted, last, threads>>

\* ---- values -------------------------------------------------------------
None == <<>>

\* Strings that the code converts (by.lower()) are sequences of characters.
S_id == <<"i", "d">>
S_css == <<"c", "s", "s">>
S_xpath == <<"x", "p", "a", "t", "h">>
S_name == <<"n", "a", "m", "e">>
S_tag == <<"t", "a", "g">>
S_class == <<"c", "l", "a", "s", "s">>
S_Css == <<"C", "s", "s">>
S_link == <<"l", "i", "n", "k">>
S_empty == <<>>

\* locator strategy arguments tried by the model
StrategyArgs == {S_id, S_Css, S_link, S_empty}

\* text arguments of send_keys tried by the model
TextArgs == {"", "a"}

\* browser arguments tried by the model
BrowserArgs == {"chrome", "firefox", "Chrome", "safari"}

\* str.lower() on one character
LowerChar(c) ==
    CASE c = "C" -> "c"
      [] c = "S" -> "s"
      [] OTHER -> c

\* str.lower()
Lower(s) == [i \in 1..Len(s) |-> LowerChar(s[i])]

\* keys of locator_map
locator_map == {S_id, S_css, S_xpath, S_name, S_tag, S_class}

\* ---- the dict state["drivers"] -----------------------------------------
Keys(d) == {d[i].sid : i \in 1..Len(d)}

Values(d) == {d[i].driver : i \in 1..Len(d)}

\* d[k], for k in d
Get(d, k) == LET i == CHOOSE j \in 1..Len(d) : d[j].sid = k IN d[i].driver

\* Put without the insertion of a new key
Put_NoInsert(d, k, v) ==
    [i \in 1..Len(d) |-> IF d[i].sid = k THEN [sid |-> k, driver |-> v] ELSE d[i]]

\* Put that keeps the value of an existing key (dict.setdefault)
Put_SetDefault(d, k, v) ==
    IF k \in {d[i].sid : i \in 1..Len(d)} THEN d ELSE Append(d, [sid |-> k, driver |-> v])

\* d[k] = v: an existing key keeps its position, a new key is appended
Put(d, k, v) ==
    IF k \in Keys(d)
    THEN [i \in 1..Len(d) |-> IF d[i].sid = k THEN [sid |-> k, driver |-> v] ELSE d[i]]
    ELSE Append(d, [sid |-> k, driver |-> v])

\* Del that removes the oldest entry (popitem on the wrong end)
Del_Oldest(d, k) == Tail(d)

\* Del that empties the dict
Del_Clear(d, k) == <<>>

\* del d[k], for k in d
Del(d, k) == SelectSeq(d, LAMBDA e : e.sid # k)

\* ---- exceptions and results --------------------------------------------
Raise(msg, log) == [raised |-> TRUE, msg |-> msg, log |-> log]

Return(log) == [raised |-> FALSE, msg |-> "", log |-> log]

\* the engine call `call` on handle h
Call(h, call) == [h |-> h, call |-> call]

\* message of the exception an engine call raises
EngineError(call) ==
    IF call \in {"wait_present", "wait_clickable"} THEN "TimeoutException" ELSE "WebDriverException"

\* ---- steps of a handler body, after get_driver() -----------------------
\* get_locator(by), evaluated as an argument of the wait that follows it
Locator(by) == [kind |-> "locator", by |-> by, call |-> "", ok |-> TRUE]

\* one call into the engine (a wait, an element method, a performed gesture)
Engine(call) == [kind |-> "engine", by |-> <<>>, call |-> call, ok |-> TRUE]

\* open(output_path, "wb") and file.write(...)
FileWrite(ok) == [kind |-> "file", by |-> <<>>, call |-> "", ok |-> ok]

get_locator(by) ==
    IF Lower(by) \notin locator_map
    THEN Raise("Unsupported locator strategy", <<>>)
    ELSE Return(<<>>)

\* Exec that goes on to the next step after an engine call raised
RECURSIVE Exec_GoOn(_, _, _, _, _)
Exec_GoOn(steps, i, h, failAt, log) ==
    IF i > Len(steps)
    THEN IF failAt \in 1..Len(log) THEN Raise(EngineError(log[failAt].call), log)
                                   ELSE Return(log)
    ELSE LET s == steps[i] IN
         CASE s.kind = "locator" ->
                IF get_locator(s.by).raised
                THEN Raise(get_locator(s.by).msg, log)
                ELSE Exec_GoOn(steps, i + 1, h, failAt, log)
           [] s.kind = "engine" ->
                Exec_GoOn(steps, i + 1, h, failAt, Append(log, Call(h, s.call)))
           [] OTHER ->
                IF s.ok
                THEN Exec_GoOn(steps, i + 1, h, failAt, log)
                ELSE Raise("OSError", log)

\* Runs steps[i..] in program order on handle h.  The failAt-th engine call
\* raises (0: none does).  The first exception ends the body.
RECURSIVE Exec(_, _, _, _, _)
Exec(steps, i, h, failAt, log) ==
    IF i > Len(steps) THEN Return(log)
    ELSE LET s == steps[i] IN
         CASE s.kind = "locator" ->
                IF get_locator(s.by).raised
                THEN Raise(get_locator(s.by).msg, log)
                ELSE Exec(steps, i + 1, h, failAt, log)
           [] s.kind = "engine" ->
                LET log2 == Append(log, Call(h, s.call))
                IN  IF Len(log2) = failAt
                    THEN Raise(EngineError(s.call), log2)
                    ELSE Exec(steps, i + 1, h, failAt, log2)
           [] OTHER ->
                IF s.ok
                THEN Exec(steps, i + 1, h, failAt, log)
                ELSE Raise("OSError", log)

\* get_driver without the membership check
get_driver_NoCheck ==
    [raised |-> FALSE, msg |-> "",
     driver |-> IF current_session \in {drivers[i].sid : i \in 1..Len(drivers)}
                THEN Get(drivers, current_session) ELSE 0]

\* get_driver that falls back to the most recently registered driver
get_driver_Fallback ==
    IF current_session \in {drivers[i].sid : i \in 1..Len(drivers)}
    THEN [raised |-> FALSE, msg |-> "", driver |-> Get(drivers, current_session)]
    ELSE IF drivers # <<>>
    THEN [raised |-> FALSE, msg |-> "", driver |-> drivers[Len(drivers)].driver]
    ELSE [raised |-> TRUE, msg |-> "No active browser session", driver |-> 0]

get_driver ==
    IF current_session \notin Keys(drivers)
    THEN [raised |-> TRUE, msg |-> "No active browser session", driver |-> 0]
    ELSE [raised |-> FALSE, msg |-> "", driver |-> Get(drivers, current_session)]

\* try: driver = get_driver(); <steps> ... as far as the first exception
Body(steps, failAt) ==
    IF get_driver.raised
    THEN Raise(get_driver.msg, <<>>)
    ELSE Exec(steps, 1, get_driver.driver, failAt, <<>>)

\* TryExcept that catches ValueError and OSError only
TryExcept_Narrow(prefix, out, success) ==
    IF out.raised
    THEN [raised |-> out.msg \in {"WebDriverException", "TimeoutException"},
          text |-> <<prefix, out.msg>>]
    ELSE [raised |-> FALSE, text |-> success]

\* except Exception as e: return f"Error ...: {str(e)}"
TryExcept(prefix, out, success) ==
    IF out.raised
    THEN [raised |-> FALSE, text |-> <<prefix, out.msg>>]
    ELSE [raised |-> FALSE, text |-> success]

\* the "Error ..." heads of the fourteen handlers
ErrorPrefixes ==
    {"Error starting browser", "Error navigating", "Error closing session",
     "Error finding element", "Error clicking element", "Error entering text",
     "Error getting element text", "Error hovering over element",
     "Error performing drag and drop", "Error performing double click",
     "Error performing right click", "Error pressing key",
     "Error uploading file", "Error taking screenshot"}

\* what a caller sees: a text with the leading "Error" marker
IsFailure(res) == ~res.raised /\ res.text[1] \in ErrorPrefixes

IsSuccess(res) == ~res.raised /\ res.text[1] \notin ErrorPrefixes

\* the call before the one being recorded
After ==
    CASE last.op = "start_browser" /\ ~IsFailure(last.res) -> "start_browser"
      [] last.op = "close_session" /\ ~IsFailure(last.res) -> "close_session"
      [] last.op = "close_session" /\ IsFailure(last.res) -> "close_session failed"
      [] OTHER -> "other"

Record(op, browser, by, target_by, res, log) ==
    [op |-> op, browser |-> browser, by |-> by, target_by |-> target_by,
     res |-> res, log |-> log,
     pre_drivers |-> drivers, pre_current |-> current_session,
     handle |-> 0, printed |-> {}, after |-> After]

\* ---- initial state ------------------------------------------------------
\* the threads that may run handlers at the same time
Threads == {1, 2}

\* a thread that is in no handler
Idle == [pc |-> "idle", browser |-> "", driver |-> 0, session_id |-> None,
         deleted |-> 0, res |-> ""]

Init ==
    /\ threads = [t \in Threads |-> Idle]
    /\ drivers = <<>>
    /\ current_session = None
    /\ now \in 0..MaxClock
    /\ nextHandle = 1
    /\ quit_attempted = {}
    /\ last = [op |-> "init", browser |-> "", by |-> <<>>, target_by |-> <<>>,
               res |-> [raised |-> FALSE, text |-> <<"", "">>], log |-> <<>>,
               pre_drivers |-> <<>>, pre_current |-> None,
               handle |-> 0, printed |-> {}, after |-> "other"]

\* ---- the clock ----------------------------------------------------------
Tick ==
    /\ now < MaxClock
    /\ now' = now + 1
    /\ UNCHANGED <<drivers, current_session, nextHandle, quit_attempted, last, threads>>

\* ---- handlers -----------------------------------------------------------
\* f"{browser}_{int(time.time() * 1000)}"
generate_session_id(browser) == <<browser, now>>

\* a browser check that ignores case
SupportedBrowsers_AnyCase == {"chrome", "firefox", "Chrome"}

\* ["chrome", "firefox"]
SupportedBrowsers == {"chrome", "firefox"}

start_browser(browser, launchOk) ==
    IF browser \notin SupportedBrowsers
    THEN /\ last' = Record("start_browser", browser, <<>>, <<>>,
                      TryExcept("Error starting browser",
                                Raise("Unsupported browser type", <<>>), <<>>),
                      <<>>)
         /\ UNCHANGED <<drivers, current_session, now, nextHandle, quit_attempted, threads>>
    ELSE IF ~launchOk
    THEN /\ last' = Record("start_browser", browser, <<>>, <<>>,
                      TryExcept("Error starting browser",
                                Raise("WebDriverException", <<>>), <<>>),
                      <<Call(0, "launch")>>)
         /\ UNCHANGED <<drivers, current_session, now, nextHandle, quit_attempted, threads>>
    ELSE /\ nextHandle <= MaxHandles
         /\ LET driver == nextHandle
                session_id == generate_session_id(browser)
            IN  /\ drivers' = Put(drivers, session_id, driver)
                /\ current_session' = session_id
                /\ nextHandle' = nextHandle + 1
                /\ last' = [Record("start_browser", browser, <<>>, <<>>,
                              TryExcept("Error starting browser", Return(<<>>),
                                        <<"Browser started with session_id", session_id>>),
                              <<Call(0, "launch")>>)
                            EXCEPT !.handle = driver]
         /\ UNCHANGED <<now, quit_attempted, threads>>

\* a handler that drops the current session when its body raises
Tool_ResetOnError(op, by, target_by, prefix, steps, failAt, success) ==
    LET out == Body(steps, failAt)
    IN  /\ last' = Record(op, "", by, target_by, TryExcept(prefix, out, success), out.log)
        /\ current_session' = IF out.raised THEN None ELSE current_session
        /\ UNCHANGED <<drivers, now, nextHandle, quit_attempted, threads>>

\* a handler that only uses the current driver
Tool(op, by, target_by, prefix, steps, failAt, success) ==
    LET out == Body(steps, failAt)
    IN  /\ last' = Record(op, "", by, target_by, TryExcept(prefix, out, success), out.log)
        /\ UNCHANGED <<drivers, current_session, now, nextHandle, quit_attempted, threads>>

navigate(failAt) ==
    Tool("navigate", <<>>, <<>>, "Error navigating",
         <<Engine("get")>>, failAt, <<"Navigated to", "">>)

find_element(by, failAt) ==
    Tool("find_element", by, <<>>, "Error finding element",
         <<Locator(by), Engine("wait_present")>>, failAt, <<"Element found using", "">>)

click_element(by, failAt) ==
    Tool("click_element", by, <<>>, "Error clicking element",
         <<Locator(by), Engine("wait_clickable"), Engine("click")>>, failAt,
         <<"Element clicked using", "">>)

\* send_keys that clears the field only when there is text to type
send_keys_ClearIfText(by, text, failAt) ==
    Tool("send_keys", by, <<>>, "Error entering text",
         IF text = ""
         THEN <<Locator(by), Engine("wait_present"), Engine("send_keys")>>
         ELSE <<Locator(by), Engine("wait_present"), Engine("clear"), Engine("send_keys")>>,
         failAt, <<"Text entered into element using", text>>)

send_keys(by, text, failAt) ==
    Tool("send_keys", by, <<>>, "Error entering text",
         <<Locator(by), Engine("wait_present"), Engine("clear"), Engine("send_keys")>>,
         failAt, <<"Text entered into element using", text>>)

get_element_text(by, failAt) ==
    Tool("get_element_text", by, <<>>, "Error getting element text",
         <<Locator(by), Engine("wait_present"), Engine("text")>>, failAt,
         <<"Text of element using", "">>)

hover(by, failAt) ==
    Tool("hover", by, <<>>, "Error hovering over element",
         <<Locator(by), Engine("wait_present"), Engine("move_to_element")>>, failAt,
         <<"Hovered over element using", "">>)

drag_and_drop(by, target_by, failAt) ==
    Tool("drag_and_drop", by, target_by, "Error performing drag and drop",
         <<Locator(by), Engine("wait_present"),
           Locator(target_by), Engine("wait_present"),
           Engine("drag_and_drop")>>, failAt,
         <<"Drag and drop completed from", "">>)

double_click(by, failAt) ==
    Tool("double_click", by, <<>>, "Error performing double click",
         <<Locator(by), Engine("wait_present"), Engine("double_click")>>, failAt,
         <<"Double click performed on element using", "">>)

right_click(by, failAt) ==
    Tool("right_click", by, <<>>, "Error performing right click",
         <<Locator(by), Engine("wait_present"), Engine("context_click")>>, failAt,
         <<"Right click performed on element using", "">>)

press_key(failAt) ==
    Tool("press_key", <<>>, <<>>, "Error pressing key",
         <<Engine("key_down_up")>>, failAt, <<"Key pressed", "">>)

upload_file(by, failAt) ==
    Tool("upload_file", by, <<>>, "Error uploading file",
         <<Locator(by), Engine("wait_present"), Engine("send_keys")>>, failAt,
         <<"File upload initiated using", "">>)

take_screenshot(output_path, fileOk, failAt) ==
    Tool("take_screenshot", <<>>, <<>>, "Error taking screenshot",
         IF output_path
         THEN <<Engine("get_screenshot_as_base64"), FileWrite(fileOk)>>
         ELSE <<Engine("get_screenshot_as_base64")>>,
         failAt,
         IF output_path THEN <<"Screenshot saved to", "">>
                        ELSE <<"Screenshot captured as base64", "">>)

\* close_session that removes the entry in a finally block
close_session_Finally(failAt) ==
    LET out == Body(<<Engine("quit")>>, failAt)
        session_id == current_session
    IN  /\ quit_attempted' = quit_attempted \cup {out.log[i].h : i \in 1..Len(out.log)}
        /\ IF out.log = <<>>
           THEN UNCHANGED <<drivers, current_session>>
           ELSE /\ drivers' = Del(drivers, session_id)
                /\ current_session' = None
        /\ last' = Record("close_session", "", <<>>, <<>>,
                     TryExcept("Error closing session", out,
                               <<"Browser session closed", session_id>>),
                     out.log)
        /\ UNCHANGED <<now, nextHandle, threads>>

close_session(failAt) ==
    LET out == Body(<<Engine("quit")>>, failAt)
        session_id == current_session
    IN  /\ quit_attempted' = quit_attempted \cup {out.log[i].h : i \in 1..Len(out.log)}
        /\ IF out.raised
           THEN UNCHANGED <<drivers, current_session>>
           ELSE /\ drivers' = Del(drivers, session_id)
                /\ current_session' = None
        /\ last' = Record("close_session", "", <<>>, <<>>,
                     TryExcept("Error closing session", out,
                               <<"Browser session closed", session_id>>),
                     out.log)
        /\ UNCHANGED <<now, nextHandle, threads>>

\* a sweep without the try/except around quit()
RECURSIVE Sweep_NoTry(_, _, _, _, _)
Sweep_NoTry(d, i, failing, log, printed) ==
    IF i > Len(d) THEN [raised |-> FALSE, log |-> log, printed |-> printed]
    ELSE IF d[i].driver \in failing
    THEN [raised |-> TRUE, log |-> Append(log, Call(d[i].driver, "quit")), printed |-> printed]
    ELSE Sweep_NoTry(d, i + 1, failing, Append(log, Call(d[i].driver, "quit")), printed)

\* for session_id, driver in state["drivers"].items():
\*     try: driver.quit()
\*     except Exception as e: print(...)
\* from entry i on; failing: the handles whose quit() raises
RECURSIVE Sweep(_, _, _, _, _)
Sweep(d, i, failing, log, printed) ==
    IF i > Len(d) THEN [raised |-> FALSE, log |-> log, printed |-> printed]
    ELSE Sweep(d, i + 1, failing, Append(log, Call(d[i].driver, "quit")),
               IF d[i].driver \in failing THEN printed \cup {d[i].sid} ELSE printed)

cleanup(failing) ==
    LET out == Sweep(drivers, 1, failing, <<>>, {})
    IN  /\ quit_attempted' = quit_attempted \cup {out.log[i].h : i \in 1..Len(out.log)}
        /\ IF out.raised
           THEN UNCHANGED <<drivers, current_session>>
           ELSE /\ drivers' = <<>>
                /\ current_session' = None
        /\ last' = [Record("cleanup", "", <<>>, <<>>,
                           [raised |-> out.raised, text |-> <<"", "">>], out.log)
                    EXCEPT !.printed = out.printed]
        /\ UNCHANGED <<now, nextHandle, threads>>

\* ---- specification ------------------------------------------------------
LocatorTool ==
    \E by \in StrategyArgs, failAt \in 0..2 :
        \/ find_element(by, IF failAt > 1 THEN 0 ELSE failAt)
        \/ click_element(by, failAt)
        \/ get_element_text(by, failAt)
        \/ hover(by, failAt)
        \/ double_click(by, failAt)
        \/ right_click(by, failAt)
        \/ upload_file(by, failAt)

Dispatch ==
    \/ \E browser \in BrowserArgs, launchOk \in BOOLEAN : start_browser(browser, launchOk)
    \/ \E failAt \in 0..1 : navigate(failAt)
    \/ LocatorTool
    \/ \E by \in StrategyArgs, text \in TextArgs, failAt \in 0..3 :
          send_keys(by, text, failAt)
    \/ \E by \in StrategyArgs, target_by \in StrategyArgs, failAt \in 0..3 :
          drag_and_drop(by, target_by, failAt)
    \/ \E failAt \in 0..1 : press_key(failAt)
    \/ \E output_path \in BOOLEAN, fileOk \in BOOLEAN, failAt \in 0..1 :
          take_screenshot(output_path, fileOk, failAt)
    \/ \E failAt \in 0..1 : close_session(failAt)

Next ==
    \/ Tick
    \/ Dispatch
    \/ \E failing \in SUBSET Values(drivers) : cleanup(failing)

Spec == Init /\ [][Next]_vars

\* ---- interleaved handlers ----------------------------------------------
\* start_browser and close_session run by several threads, one statement of
\* server.py per step; nothing in server.py takes a lock.
At(t, pc) == threads[t].pc = pc

Goto(t, pc) == [threads EXCEPT ![t].pc = pc]

\* return of the success text, or of the "Error ..." text from the except branch
Finish(t, res) == [threads EXCEPT ![t].pc = "done", ![t].res = res]

Shared == <<drivers, current_session, nextHandle, quit_attempted>>

\* a client invokes start_browser(browser)
start_browser_call(t, browser) ==
    /\ At(t, "idle")
    /\ threads' = [threads EXCEPT ![t] = [Idle EXCEPT !.pc = "start_39", !.browser = browser]]
    /\ UNCHANGED <<Shared, now, last>>

\* line 39: if browser not in ["chrome", "firefox"]: raise ValueError
start_browser_validate(t) ==
    /\ At(t, "start_39")
    /\ threads' = IF threads[t].browser \notin SupportedBrowsers
                  THEN Finish(t, "failed")
                  ELSE Goto(t, "start_50")
    /\ UNCHANGED <<Shared, now, last>>

\* lines 50, 59: driver = webdriver.Chrome(...) / webdriver.Firefox(...)
start_browser_launch(t, launchOk) ==
    /\ At(t, "start_50")
    /\ IF launchOk
       THEN /\ nextHandle <= MaxHandles
            /\ nextHandle' = nextHandle + 1
            /\ threads' = [threads EXCEPT ![t].pc = "start_61", ![t].driver = nextHandle]
       ELSE /\ threads' = Finish(t, "failed")
            /\ UNCHANGED nextHandle
    /\ UNCHANGED <<drivers, current_session, quit_attempted, now, last>>

\* line 61: session_id = generate_session_id(browser)
start_browser_session_id(t) ==
    /\ At(t, "start_61")
    /\ threads' = [threads EXCEPT ![t].pc = "start_62",
                                  ![t].session_id = generate_session_id(threads[t].browser)]
    /\ UNCHANGED <<Shared, now, last>>

\* line 62: state["drivers"][session_id] = driver
start_browser_store(t) ==
    /\ At(t, "start_62")
    /\ drivers' = Put(drivers, threads[t].session_id, threads[t].driver)
    /\ threads' = Goto(t, "start_63")
    /\ UNCHANGED <<current_session, nextHandle, quit_attempted, now, last>>

\* lines 63, 65: state["current_session"] = session_id; return
start_browser_set_current(t) ==
    /\ At(t, "start_63")
    /\ current_session' = threads[t].session_id
    /\ threads' = Finish(t, "ok")
    /\ UNCHANGED <<drivers, nextHandle, quit_attempted, now, last>>

\* a client invokes close_session()
close_session_call(t) ==
    /\ At(t, "idle")
    /\ threads' = [threads EXCEPT ![t] = [Idle EXCEPT !.pc = "close_21"]]
    /\ UNCHANGED <<Shared, now, last>>

\* line 21, in get_driver: if state["current_session"] not in state["drivers"]: raise
close_session_check(t) ==
    /\ At(t, "close_21")
    /\ threads' = IF current_session \notin Keys(drivers)
                  THEN Finish(t, "failed")
                  ELSE Goto(t, "close_23")
    /\ UNCHANGED <<Shared, now, last>>

\* line 23, in get_driver: return state["drivers"][state["current_session"]]
\* (KeyError when the entry has gone since line 21)
close_session_get_driver(t) ==
    /\ At(t, "close_23")
    /\ threads' = IF current_session \notin Keys(drivers)
                  THEN Finish(t, "failed")
                  ELSE [threads EXCEPT ![t].pc = "close_389",
                                       ![t].driver = Get(drivers, current_session)]
    /\ UNCHANGED <<Shared, now, last>>

\* line 389: driver.quit()
close_session_quit(t, quitOk) ==
    /\ At(t, "close_389")
    /\ quit_attempted' = quit_attempted \cup {threads[t].driver}
    /\ threads' = IF quitOk THEN Goto(t, "close_390") ELSE Finish(t, "failed")
    /\ UNCHANGED <<drivers, current_session, nextHandle, now, last>>

\* line 390: session_id = state["current_session"]
close_session_read_current(t) ==
    /\ At(t, "close_390")
    /\ threads' = [threads EXCEPT ![t].pc = "close_391", ![t].session_id = current_session]
    /\ UNCHANGED <<Shared, now, last>>

\* line 391: del state["drivers"][session_id]  (KeyError when it is no key)
close_session_del(t) ==
    /\ At(t, "close_391")
    /\ IF threads[t].session_id \notin Keys(drivers)
       THEN /\ threads' = Finish(t, "failed")
            /\ UNCHANGED drivers
       ELSE /\ drivers' = Del(drivers, threads[t].session_id)
            /\ threads' = [threads EXCEPT ![t].pc = "close_392",
                                          ![t].deleted = Get(drivers, threads[t].session_id)]
    /\ UNCHANGED <<current_session, nextHandle, quit_attempted, now, last>>

\* lines 392, 394: state["current_session"] = None; return
close_session_set_none(t) ==
    /\ At(t, "close_392")
    /\ current_session' = None
    /\ threads' = Finish(t, "ok")
    /\ UNCHANGED <<drivers, nextHandle, quit_attempted, now, last>>

\* the client has its text; the thread can take the next invocation
Returned(t) ==
    /\ At(t, "done")
    /\ threads' = [threads EXCEPT ![t] = Idle]
    /\ UNCHANGED <<Shared, now, last>>

NextConc ==
    \/ Tick
    \/ \E t \in Threads, browser \in BrowserArgs : start_browser_call(t, browser)
    \/ \E t \in Threads : start_browser_validate(t)
    \/ \E t \in Threads, launchOk \in BOOLEAN : start_browser_launch(t, launchOk)
    \/ \E t \in Threads : start_browser_session_id(t)
    \/ \E t \in Threads : start_browser_store(t)
    \/ \E t \in Threads : start_browser_set_current(t)
    \/ \E t \in Threads : close_session_call(t)
    \/ \E t \in Threads : close_session_check(t)
    \/ \E t \in Threads : close_session_get_driver(t)
    \/ \E t \in Threads, quitOk \in BOOLEAN : close_session_quit(t, quitOk)
    \/ \E t \in Threads : close_session_read_current(t)
    \/ \E t \in Threads : close_session_del(t)
    \/ \E t \in Threads : close_session_set_none(t)
    \/ \E t \in Threads : Returned(t)

SpecConc == Init /\ [][NextConc]_vars

\* ---- properties ---------------------------------------------------------
DispatcherOps ==
    {"start_browser", "navigate", "find_element", "click_element", "send_keys",
     "get_element_text", "hover", "drag_and_drop", "double_click", "right_click",
     "press_key", "upload_file", "take_screenshot", "close_session"}

LocatorOps ==
    {"find_element", "click_element", "send_keys", "get_element_text", "hover",
     "drag_and_drop", "double_click", "right_click", "upload_file"}

Unchanged == drivers = last.pre_drivers /\ current_session = last.pre_current

\* C1: in every reachable state, a non-null current-session pointer is a key
\* of the registry mapping.
C1_CurrentIsRegistered ==
    current_session # None => current_session \in Keys(drivers)

\* C1 witness: a quit() failed in close_session and the pointer is still set,
\* with another session registered beside the current one.
C1_Witness ==
    /\ last.op = "close_session" /\ IsFailure(last.res)
    /\ last.log # <<>>
    /\ current_session # None
    /\ Len(drivers) >= 2

\* C2: every dispatcher operation ends by returning a text; no exception
\* reaches the caller, whatever the registry state and the engine outcome.
C2_AlwaysText ==
    last.op \in DispatcherOps => ~last.res.raised /\ Len(last.res.text) = 2

\* C2 witness: an engine call raised inside a handler and the caller got an
\* "Error ..." text.
C2_Witness ==
    /\ last.op \in DispatcherOps
    /\ IsFailure(last.res)
    /\ last.res.text[2] \in {"WebDriverException", "TimeoutException"}

\* C3: for a browser name other than "chrome" and "firefox", start_browser
\* returns a failure, attempts no launch and leaves the mapping and the
\* current pointer as they were.
C3_UnsupportedBrowser ==
    (last.op = "start_browser" /\ last.browser \notin {"chrome", "firefox"})
        => /\ IsFailure(last.res)
           /\ last.log = <<>>
           /\ Unchanged

\* C3 witness: start_browser("Chrome") was refused while a session was
\* registered and current.
C3_Witness ==
    /\ last.op = "start_browser" /\ last.browser = "Chrome"
    /\ last.pre_current # None
    /\ IsFailure(last.res)

\* C4: a locator-taking operation given an unsupported strategy (for
\* drag_and_drop: as source or as target) returns a failure and invokes no
\* engine operation during the call.
C4_NoEngineOnUnsupportedStrategy ==
    (/\ last.op \in LocatorOps
     /\ \/ Lower(last.by) \notin locator_map
        \/ last.op = "drag_and_drop" /\ Lower(last.target_by) \notin locator_map)
        => IsFailure(last.res) /\ last.log = <<>>

\* C5: with no current session, every dispatcher operation other than
\* start_browser returns a failure citing that there is no active browser
\* session, invokes no engine operation and changes neither the mapping nor
\* the current pointer.
C5_NoActiveSession ==
    (/\ last.op \in DispatcherOps \ {"start_browser"}
     /\ last.pre_current \notin Keys(last.pre_drivers))
        => /\ IsFailure(last.res)
           /\ last.res.text[2] = "No active browser session"
           /\ last.log = <<>>
           /\ Unchanged

\* C5 witness: an operation was refused for want of a current session while
\* an older session was still registered.
C5_Witness ==
    /\ last.op \in DispatcherOps \ {"start_browser"}
    /\ last.pre_current = None
    /\ last.pre_drivers # <<>>
    /\ IsFailure(last.res)

StartedOk(c) == c.op = "start_browser" /\ IsSuccess(c.res)

ClosedOk(c) == c.op = "close_session" /\ IsSuccess(c.res)

\* C6 as claimed: from any reachable state, a start_browser whose launch
\* succeeds followed immediately by close_session leaves the registry empty
\* and the current pointer null (stated for a close_session that succeeds).
C6_RoundTripEmpty ==
    (ClosedOk(last) /\ last.after = "start_browser")
        => drivers = <<>> /\ current_session = None

\* C6 amended: a start_browser whose launch succeeds followed immediately by
\* a close_session whose quit() succeeds leaves the current pointer null and
\* the registry equal to the registry before the start_browser without the
\* started id; it is empty when no other id was registered before.
C6_RoundTripRestores ==
    [][(/\ StartedOk(last)
        /\ ClosedOk(last') /\ last'.after = "start_browser")
          => /\ current_session' = None
             /\ drivers' = SelectSeq(last.pre_drivers,
                                     LAMBDA e : e.sid # last.res.text[2])
             /\ (Keys(last.pre_drivers) \subseteq {last.res.text[2]}
                    => drivers' = <<>>)]_vars

\* C6 witness: the round trip ran while an older session was registered,
\* which is still registered after it.
C6_Witness ==
    /\ ClosedOk(last) /\ last.after = "start_browser"
    /\ current_session = None
    /\ drivers # <<>>

\* C7 as claimed: when close_session is called twice in a row, the second
\* call returns a failure and the registry is empty after it.
C7_SecondCloseFailsEmpty ==
    (last.op = "close_session"
     /\ last.after \in {"close_session", "close_session failed"})
        => IsFailure(last.res) /\ drivers = <<>>

\* C7 amended: when close_session is called twice in a row and the first
\* call succeeded, the second call returns a failure citing no active
\* session and leaves the registry as the first call left it, with the
\* current pointer null.
C7_SecondCloseFails ==
    (last.op = "close_session" /\ last.after = "close_session")
        => /\ IsFailure(last.res)
           /\ last.res.text[2] = "No active browser session"
           /\ last.log = <<>>
           /\ Unchanged
           /\ current_session = None

\* C7 witness: the second close_session was refused while another session
\* was still registered.
C7_Witness ==
    /\ last.op = "close_session" /\ last.after = "close_session"
    /\ IsFailure(last.res)
    /\ drivers # <<>>

\* C8: cleanup calls quit() once on every registered handle, in registry
\* order and past the handles whose quit() fails, raises nothing, and ends
\* with an empty registry and a null current pointer.
C8_CleanupSweepsAll ==
    last.op = "cleanup"
        => /\ ~last.res.raised
           /\ Len(last.log) = Len(last.pre_drivers)
           /\ \A i \in 1..Len(last.log) :
                 last.log[i] = [h |-> last.pre_drivers[i].driver, call |-> "quit"]
           /\ drivers = <<>>
           /\ current_session = None

\* C8 witness: cleanup ran over two sessions and the quit() of the first
\* one failed.
C8_Witness ==
    /\ last.op = "cleanup"
    /\ Len(last.pre_drivers) = 2
    /\ last.pre_drivers[1].sid \in last.printed

\* C9: every successful start_browser returns an id that was not a key of
\* the registry before the call; the registry gains exactly one entry and
\* keeps every earlier entry.
C9_FreshSessionId ==
    StartedOk(last)
        => /\ last.res.text[2] \notin Keys(last.pre_drivers)
           /\ Len(drivers) = Len(last.pre_drivers) + 1
           /\ \A i \in 1..Len(last.pre_drivers) : drivers[i] = last.pre_drivers[i]

\* C10: after a start_browser whose launch succeeds the registry maps the
\* returned id to the newly launched handle and the current pointer is that
\* id, so the next dispatcher operation calls the engine on that handle; a
\* failed start_browser changes neither the registry nor the pointer.
C10_StartedIsCurrent ==
    /\ StartedOk(last)
          => /\ current_session = last.res.text[2]
             /\ current_session \in Keys(drivers)
             /\ Get(drivers, current_session) = last.handle
             /\ last.handle \notin Values(last.pre_drivers) \cup quit_attempted
    /\ (last.op = "start_browser" /\ IsFailure(last.res)) => Unchanged
    /\ (last.op \in DispatcherOps \ {"start_browser"} /\ last.after = "start_browser")
          => \A i \in 1..Len(last.log) : last.log[i].h = nextHandle - 1

\* C10 witness: the operation right after the second start_browser called
\* the engine on the second handle while the first session was registered.
C10_Witness ==
    /\ last.op = "navigate" /\ last.after = "start_browser"
    /\ IsSuccess(last.res)
    /\ last.log = <<[h |-> 2, call |-> "get"]>>
    /\ Len(drivers) = 2

\* C11: navigate, find_element, click_element, send_keys, get_element_text,
\* hover, drag_and_drop, double_click, right_click, press_key, upload_file
\* and take_screenshot leave the registry mapping and the current pointer as
\* they were, on success and on failure; a change comes only from
\* start_browser, close_session or cleanup.
C11_OnlyThreeMutate ==
    last.op \notin {"start_browser", "close_session", "cleanup"} => Unchanged

\* C11 witness: an engine call raised inside click_element while a session
\* was current.
C11_Witness ==
    /\ last.op = "click_element"
    /\ IsFailure(last.res)
    /\ last.log = <<Call(1, "wait_clickable"), Call(1, "click")>>
    /\ current_session # None

\* the handles webdriver.Chrome() / webdriver.Firefox() have returned
Launched == 1..(nextHandle - 1)

\* the registry entries that hold handle h
EntriesOf(h) == {i \in 1..Len(drivers) : drivers[i].driver = h}

\* C12: every engine handle launched by a successful start_browser is the
\* value of exactly one registry entry or has had quit() attempted on it; no
\* handle is held under two ids and none leaves the registry un-quit.
C12_HandleOwnedOrQuit ==
    \A h \in Launched :
        /\ Cardinality(EntriesOf(h)) <= 1
        /\ Cardinality(EntriesOf(h)) = 1 \/ h \in quit_attempted

\* C13: drag_and_drop waits for the source first, then for the target, and
\* issues the drag only after both waits succeeded: a failed source wait is
\* followed by no target wait and no drag, a failed target wait by no drag
\* and a failure result.
C13_DragOrder ==
    last.op = "drag_and_drop"
        => LET full == <<"wait_present", "wait_present", "drag_and_drop">>
               calls == [i \in 1..Len(last.log) |-> last.log[i].call]
           IN  /\ Len(calls) <= 3
               /\ calls = SubSeq(full, 1, Len(calls))
               /\ \A i \in 1..Len(last.log) :
                     /\ last.pre_current \in Keys(last.pre_drivers)
                     /\ last.log[i].h = Get(last.pre_drivers, last.pre_current)
               /\ Len(calls) < 3 => IsFailure(last.res)
               /\ (IsFailure(last.res) /\ last.res.text[2] = "TimeoutException")
                     => calls[Len(calls)] = "wait_present"
               /\ (Len(calls) >= 1 /\ Lower(last.target_by) \notin locator_map)
                     => Len(calls) = 1
               /\ Lower(last.by) \notin locator_map => calls = <<>>

\* C13 witness: the source wait succeeded, the target wait timed out and
\* drag_and_drop returned a failure without a drag.
C13_Witness ==
    /\ last.op = "drag_and_drop"
    /\ IsFailure(last.res) /\ last.res.text[2] = "TimeoutException"
    /\ Len(last.log) = 2

QuitFailed(c) == c.op = "close_session" /\ IsFailure(c.res) /\ c.log # <<>>

\* C14: when quit() fails in close_session the call returns a failure and
\* the registry mapping and the current pointer are unchanged, the session
\* staying registered and current; a close_session that follows calls
\* quit() on the same handle again.
C14_QuitFailureKeepsSession ==
    [][/\ QuitFailed(last')
            => /\ drivers' = last'.pre_drivers
               /\ current_session' = last'.pre_current
               /\ current_session' \in Keys(drivers')
               /\ last'.log = <<Call(Get(drivers', current_session'), "quit")>>
       /\ (QuitFailed(last) /\ last'.op = "close_session")
            => last'.log = <<Call(last.log[1].h, "quit")>>]_vars

\* C14 witness: quit() failed in two close_session calls in a row, another
\* session being registered beside the current one.
C14_Witness ==
    /\ QuitFailed(last)
    /\ last.after = "close_session failed"
    /\ Len(drivers) = 2
    /\ current_session = drivers[2].sid

\* C15: a successful close_session removes exactly the entry of the session
\* that was current at the call, calls quit() on exactly that session's
\* handle, sets the current pointer to null and leaves every other entry in
\* place with no quit() on its handle.
C15_CloseRemovesOnlyCurrent ==
    [][(ClosedOk(last') /\ last' # last)
          => /\ current_session \in Keys(drivers)
             /\ last'.res.text[2] = current_session
             /\ drivers' = SelectSeq(drivers, LAMBDA e : e.sid # current_session)
             /\ Len(drivers') = Len(drivers) - 1
             /\ current_session' = None
             /\ last'.log = <<Call(Get(drivers, current_session), "quit")>>
             /\ quit_attempted' =
                   quit_attempted \cup {Get(drivers, current_session)}]_vars

\* C15 witness: close_session succeeded on the newer of two sessions and the
\* older one is registered with no quit() on its handle.
C15_Witness ==
    /\ ClosedOk(last)
    /\ Len(last.pre_drivers) = 2
    /\ Len(drivers) = 1
    /\ drivers[1].driver \notin quit_attempted

\* C16: no operation sets the current pointer to an id that is already
\* registered, so a registered session that is not current never becomes
\* current again; with a null pointer every operation but start_browser
\* fails with no active session until a start_browser succeeds, whatever is
\* still registered; and quit() reaches a session that is not current only
\* in cleanup.
C16_NoReturnToRegistered ==
    [][/\ (StartedOk(last') /\ last' # last)
            => current_session' \notin Keys(drivers)
       /\ (current_session' # current_session /\ current_session' # None)
            => StartedOk(last')
       /\ (/\ current_session = None /\ last' # last
           /\ last'.op \in DispatcherOps \ {"start_browser"})
            => /\ IsFailure(last'.res)
               /\ last'.res.text[2] = "No active browser session"
               /\ current_session' = None
       /\ \A h \in quit_attempted' \ quit_attempted :
             \/ last'.op = "cleanup"
             \/ current_session \in Keys(drivers) /\ h = Get(drivers, current_session)]_vars

\* C18: in send_keys, once the element-present wait has succeeded, clear()
\* is called before any text is typed, for every text including the empty
\* string; when clear() fails nothing is typed and a failure is returned.
C18_ClearBeforeType ==
    last.op = "send_keys"
        => LET full == <<"wait_present", "clear", "send_keys">>
               calls == [i \in 1..Len(last.log) |-> last.log[i].call]
           IN  /\ Len(calls) <= 3
               /\ calls = SubSeq(full, 1, Len(calls))
               /\ Len(calls) < 3 => IsFailure(last.res)
               /\ IsSuccess(last.res) => calls = full

\* C18 witness: send_keys with the empty text succeeded, the field having
\* been cleared before the typing.
C18_Witness ==
    /\ last.op = "send_keys"
    /\ last.res.text = <<"Text entered into element using", "">>
    /\ Len(last.log) = 3
    /\ last.log[2].call = "clear"

\* every thread is outside the handlers or has its result
Quiescent == \A t \in Threads : threads[t].pc \in {"idle", "done"}

\* C17: when handlers run concurrently and their steps interleave,
\* close_session deletes from the registry exactly the session whose engine
\* handle it quit, and between the calls a non-null current pointer is a
\* key of the registry.
C17_InterleavedCloseDeletesQuit ==
    /\ \A t \in Threads :
          threads[t].deleted # 0 => threads[t].deleted = threads[t].driver
    /\ Quiescent => (current_session # None => current_session \in Keys(drivers))
====
